---------------------------- MODULE Spec2Model ----------------------------
(***************************************************************************)
(* Harvesting engine of webscraping/webscraping.py: ArXivScraper            *)
(* (search_papers), PubMedScraper (get_trending_papers, _get, the MEDLINE   *)
(* parser and the date normaliser).                                         *)
(*                                                                          *)
(* Text is modelled as a sequence of one-character strings, so that strip,  *)
(* split, join, startswith and the regular expressions are computed as the  *)
(* code computes them.  A Python dict is a function whose DOMAIN is the set *)
(* of keys present.                                                         *)
(***************************************************************************)
EXTENDS Integers, Sequences, FiniteSets, TLC

(***************************************************************************)
(* Python str primitives                                                    *)
(***************************************************************************)
Whitespace == {" ", "\n", "\t"}

Digits == {"0", "1", "2", "3", "4", "5", "6", "7", "8", "9"}

RECURSIVE LStrip(_)
LStrip(s) ==
    IF s = <<>> THEN <<>>
    ELSE IF Head(s) \in Whitespace THEN LStrip(Tail(s)) ELSE s

RECURSIVE RStrip(_)
RStrip(s) ==
    IF s = <<>> THEN <<>>
    ELSE IF s[Len(s)] \in Whitespace THEN RStrip(SubSeq(s, 1, Len(s) - 1)) ELSE s

\* str.strip()
Strip(s) == RStrip(LStrip(s))

RECURSIVE StripChar(_, _)
\* str.strip(c) for a single character c
StripChar(s, c) ==
    IF s = <<>> THEN <<>>
    ELSE IF Head(s) = c THEN StripChar(Tail(s), c)
    ELSE IF s[Len(s)] = c THEN StripChar(SubSeq(s, 1, Len(s) - 1), c)
    ELSE s

\* str.startswith(prefix)
StartsWith(s, prefix) ==
    /\ Len(s) >= Len(prefix)
    /\ SubSeq(s, 1, Len(prefix)) = prefix

\* str.endswith(suffix)
EndsWith(s, suffix) ==
    /\ Len(s) >= Len(suffix)
    /\ SubSeq(s, Len(s) - Len(suffix) + 1, Len(s)) = suffix

\* s[n:]
DropFirst(s, n) == IF n >= Len(s) THEN <<>> ELSE SubSeq(s, n + 1, Len(s))

RECURSIVE SplitOn(_, _)
\* str.split(c) for a single-character separator: always at least one piece
SplitOn(s, c) ==
    IF \A i \in 1..Len(s) : s[i] # c THEN <<s>>
    ELSE LET i == CHOOSE k \in 1..Len(s) : s[k] = c /\ \A j \in 1..(k - 1) : s[j] # c
         IN  <<SubSeq(s, 1, i - 1)>> \o SplitOn(DropFirst(s, i), c)

RECURSIVE SplitWs(_)
\* str.split() with no argument: runs of whitespace separate, no empty pieces
SplitWs(s) ==
    LET t == LStrip(s)
    IN  IF t = <<>> THEN <<>>
        ELSE IF \A i \in 1..Len(t) : t[i] \notin Whitespace THEN <<t>>
        ELSE LET i == CHOOSE k \in 1..Len(t) :
                          t[k] \in Whitespace /\ \A j \in 1..(k - 1) : t[j] \notin Whitespace
             IN  <<SubSeq(t, 1, i - 1)>> \o SplitWs(DropFirst(t, i))

\* str.splitlines(): lines end at "\n"; a final newline opens no extra line
SplitLines(s) ==
    LET pieces == SplitOn(s, "\n")
    IN  IF pieces[Len(pieces)] = <<>> THEN SubSeq(pieces, 1, Len(pieces) - 1) ELSE pieces

RECURSIVE Join(_, _)
\* sep.join(parts)
Join(sep, parts) ==
    IF parts = <<>> THEN <<>>
    ELSE IF Len(parts) = 1 THEN parts[1]
    ELSE parts[1] \o sep \o Join(sep, Tail(parts))

\* str.replace(a, b) for single characters
ReplaceChar(s, a, b) == [i \in 1..Len(s) |-> IF s[i] = a THEN b ELSE s[i]]

RECURSIVE ZFill(_, _)
\* str.zfill(width) of an unsigned token
ZFill(s, width) == IF Len(s) >= width THEN s ELSE ZFill(<<"0">> \o s, width)

IsDigits(s) == s # <<>> /\ \A i \in 1..Len(s) : s[i] \in Digits

DigitVal(c) ==
    CASE c = "0" -> 0 [] c = "1" -> 1 [] c = "2" -> 2 [] c = "3" -> 3 [] c = "4" -> 4
      [] c = "5" -> 5 [] c = "6" -> 6 [] c = "7" -> 7 [] c = "8" -> 8 [] c = "9" -> 9

RECURSIVE ToInt(_)
ToInt(s) == IF s = <<>> THEN 0 ELSE 10 * ToInt(SubSeq(s, 1, Len(s) - 1)) + DigitVal(s[Len(s)])

DigitChar(n) ==
    CASE n = 0 -> "0" [] n = 1 -> "1" [] n = 2 -> "2" [] n = 3 -> "3" [] n = 4 -> "4"
      [] n = 5 -> "5" [] n = 6 -> "6" [] n = 7 -> "7" [] n = 8 -> "8" [] n = 9 -> "9"

RECURSIVE ToStr(_)
ToStr(n) == IF n < 10 THEN <<DigitChar(n)>> ELSE ToStr(n \div 10) \o <<DigitChar(n % 10)>>

\* dict.get(key, default)
Get(d, key, default) == IF key \in DOMAIN d THEN d[key] ELSE default

\* d[key] = value on a dict
Put(d, key, value) == [k \in DOMAIN d \cup {key} |-> IF k = key THEN value ELSE d[k]]

EmptyDict == [k \in {} |-> <<>>]


(***************************************************************************)
(* Configuration (ARXIV_CONFIG, PubMedScraper.__init__)                     *)
(***************************************************************************)
\* ARXIV_CONFIG['categories'] and ['categories_corpus'] composed:
\* category name -> section name
CategorySection ==
    [c \in {"computation_language", "computer_vision", "cryptography_security"} |->
        IF c = "computation_language"
        THEN <<"C","o","m","p","u","t","a","t","i","o","n"," ","a","n","d"," ",
               "L","a","n","g","u","a","g","e">>
        ELSE IF c = "computer_vision"
        THEN <<"C","o","m","p","u","t","e","r"," ","V","i","s","i","o","n"," ",
               "a","n","d"," ","P","a","t","t","e","r","n"," ",
               "R","e","c","o","g","n","i","t","i","o","n">>
        ELSE <<"C","r","y","p","t","o","g","r","a","p","h","y"," ","a","n","d"," ",
               "S","e","c","u","r","i","t","y">>]

\* lines 17-19: the keys in the order the dictionary lists them
CategoryOrder == <<"computation_language", "computer_vision", "cryptography_security">>

Categories == DOMAIN CategorySection

\* "10.48550/arXiv."
DoiPrefix == <<"1","0",".","4","8","5","5","0","/","a","r","X","i","v",".">>

(***************************************************************************)
(* ArXivScraper._format_date: strptime('%Y-%m-%d') then strftime            *)
(***************************************************************************)
IsLeap(y) == (y % 4 = 0 /\ y % 100 # 0) \/ y % 400 = 0

DaysIn(y, m) ==
    IF m = 2 THEN (IF IsLeap(y) THEN 29 ELSE 28)
    ELSE IF m \in {4, 6, 9, 11} THEN 30 ELSE 31

\* %m accepts 1[0-2] | 0[1-9] | [1-9]
MatchesMonth(s) == IsDigits(s) /\ Len(s) \in {1, 2} /\ ToInt(s) \in 1..12

\* %d accepts 3[01] | [12]\d | 0[1-9] | [1-9] | " "[1-9]
MatchesDay(s) ==
    \/ IsDigits(s) /\ Len(s) \in {1, 2} /\ ToInt(s) \in 1..31
    \/ Len(s) = 2 /\ s[1] = " " /\ s[2] \in (Digits \ {"0"})

\* The year is printed by %Y as the platform prints it; inputs here have
\* four-digit years from 1000 on, where every platform prints four digits.
FormatDate(date_str) ==
    LET parts == SplitOn(date_str, "-")
    IN  IF /\ Len(parts) = 3
           /\ IsDigits(parts[1]) /\ Len(parts[1]) = 4 /\ ToInt(parts[1]) >= 1
           /\ MatchesMonth(parts[2])
           /\ MatchesDay(parts[3])
           /\ ToInt(LStrip(parts[3])) <= DaysIn(ToInt(parts[1]), ToInt(parts[2]))
        THEN ZFill(ToStr(ToInt(LStrip(parts[3]))), 2) \o <<"/">>
             \o ZFill(ToStr(ToInt(parts[2])), 2) \o <<"/">>
             \o ToStr(ToInt(parts[1]))
        ELSE <<>>

(***************************************************************************)
(* ArXivScraper._parse_arxiv_response                                       *)
(* A feed entry is a dict of the attributes it has.                         *)
(***************************************************************************)
\* An entry without id raises inside the per-entry try and is skipped.
EntryParses(entry) == "id" \in DOMAIN entry

ParseEntry(entry, section_name) ==
    LET segs     == SplitOn(entry["id"], "/")
        arxiv_id == segs[Len(segs)]
        authors  == IF "authors" \in DOMAIN entry THEN entry["authors"]
                    ELSE IF "author" \in DOMAIN entry THEN <<entry["author"]>>
                    ELSE <<>>
        pub_date == IF "published" \in DOMAIN entry
                    THEN FormatDate(SplitOn(entry["published"], "T")[1])
                    ELSE <<>>
    IN  [doi      |-> DoiPrefix \o arxiv_id,
         title    |-> IF "title" \in DOMAIN entry
                      THEN Strip(ReplaceChar(entry["title"], "\n", " ")) ELSE <<>>,
         authors  |-> Join(<<";", " ">>, authors),
         abstract |-> IF "summary" \in DOMAIN entry
                      THEN Strip(ReplaceChar(entry["summary"], "\n", " ")) ELSE <<>>,
         section  |-> section_name,
         date     |-> pub_date,
         arxiv_id |-> arxiv_id]

RECURSIVE ParseArxivResponse(_, _)
\* entries: feed.entries of the response, in feed order
ParseArxivResponse(entries, section_name) ==
    IF entries = <<>> THEN <<>>
    ELSE (IF EntryParses(Head(entries))
          THEN <<ParseEntry(Head(entries), section_name)>> ELSE <<>>)
         \o ParseArxivResponse(Tail(entries), section_name)

(***************************************************************************)
(* _is_paper_valid (both scrapers): every required field is truthy and not  *)
(* whitespace-only                                                          *)
(***************************************************************************)
\* faulty variant: a whitespace-only field passes
FieldOk_NoStrip(paper, field) == Get(paper, field, <<>>) # <<>>

FieldOk(paper, field) ==
    /\ Get(paper, field, <<>>) # <<>>
    /\ Strip(Get(paper, field, <<>>)) # <<>>

ArxivRequired == {"doi", "title", "authors", "abstract", "section", "date"}

ArxivIsPaperValid(paper) == \A f \in ArxivRequired : FieldOk(paper, f)

PubmedRequired == {"doi", "title", "authors", "abstract", "journal", "date"}

PubmedIsPaperValid(paper) == \A f \in PubmedRequired : FieldOk(paper, f)

(***************************************************************************)
(* search_papers, lines 107-116: the filter loop over one batch             *)
(* acc = [valid |-> valid_papers, seen |-> seen_dois]                       *)
(***************************************************************************)
\* faulty variant: the batch loop never stops at the target
TargetReached_Never(n_collected, valid, max_results) == FALSE

\* lines 114-116: the target is reached, cut and leave the loop
TargetReached(n_collected, valid, max_results) ==
    n_collected + Len(valid) >= max_results

Truncate(valid, n_collected, max_results) ==
    SubSeq(valid, 1, max_results - n_collected)

\* faulty variant: no check against seen_dois
Accepts_NoDedup(paper, seen) == ArxivIsPaperValid(paper)

\* line 110
Accepts(paper, seen) == ArxivIsPaperValid(paper) /\ paper.doi \notin seen

RECURSIVE FilterBatch(_, _, _, _)
FilterBatch(batch, acc, n_collected, max_results) ==
    IF batch = <<>> THEN acc
    ELSE LET paper == Head(batch)
         IN  IF Accepts(paper, acc.seen)
             THEN LET valid == Append(acc.valid, paper)
                      seen  == acc.seen \cup {paper.doi}
                  IN  IF TargetReached(n_collected, valid, max_results)
                      THEN [valid |-> Truncate(valid, n_collected, max_results),
                            seen  |-> seen]
                      ELSE FilterBatch(Tail(batch), [valid |-> valid, seen |-> seen],
                                       n_collected, max_results)
             ELSE FilterBatch(Tail(batch), acc, n_collected, max_results)

(***************************************************************************)
(* PubMedScraper._format_pubmed_date                                        *)
(***************************************************************************)
MonthNames ==
    << <<"J","a","n">>, <<"F","e","b">>, <<"M","a","r">>, <<"A","p","r">>,
       <<"M","a","y">>, <<"J","u","n">>, <<"J","u","l">>, <<"A","u","g">>,
       <<"S","e","p">>, <<"O","c","t">>, <<"N","o","v">>, <<"D","e","c">> >>

\* faulty variant: the table is not consulted
MonthMapGet_NoTable(month_name) == <<"0","1">>

\* month_map.get(month_name, '01')
MonthMapGet(month_name) ==
    IF \E m \in 1..12 : MonthNames[m] = month_name
    THEN ZFill(ToStr(CHOOSE m \in 1..12 : MonthNames[m] = month_name), 2)
    ELSE <<"0","1">>

FormatPubmedDate(date_str) ==
    IF date_str = <<>> THEN <<>>
    ELSE LET parts == SplitWs(Strip(date_str))
         IN  IF Len(parts) >= 3
             THEN ZFill(parts[3], 2) \o <<"/">> \o MonthMapGet(parts[2]) \o <<"/">> \o parts[1]
             ELSE IF Len(parts) = 2
             THEN <<"0","1","/">> \o MonthMapGet(parts[2]) \o <<"/">> \o parts[1]
             ELSE IF Len(parts) = 1 /\ Len(parts[1]) = 4
             THEN <<"0","1","/","0","1","/">> \o parts[1]
             ELSE <<>>

(***************************************************************************)
(* PubMedScraper._finalize_paper                                            *)
(***************************************************************************)
FinalizePaper(d) ==
    [doi      |-> Get(d, "doi", <<>>),
     title    |-> Strip(ReplaceChar(Get(d, "title", <<>>), "\n", " ")),
     authors  |-> Join(<<";", " ">>, Get(d, "authors", <<>>)),
     abstract |-> Strip(ReplaceChar(Get(d, "abstract", <<>>), "\n", " ")),
     journal  |-> Get(d, "journal", <<>>),
     date     |-> FormatPubmedDate(Get(d, "date", <<>>)),
     pmid     |-> Get(d, "pmid", <<>>)]

(***************************************************************************)
(* PubMedScraper._parse_medline_format                                      *)
(***************************************************************************)
KeyPMID == <<"P","M","I","D","-"," ">>

KeyTI == <<"T","I"," "," ","-"," ">>

KeyAB == <<"A","B"," "," ","-"," ">>

KeyAU == <<"A","U"," "," ","-"," ">>

KeyTA == <<"T","A"," "," ","-"," ">>

KeyDP == <<"D","P"," "," ","-"," ">>

KeyAID == <<"A","I","D"," ","-"," ">>

Continuation == <<" "," "," "," "," "," ">>

\* length of the longest run of characters of `set` in s from position i
RECURSIVE RunLen(_, _, _)
RunLen(s, i, set) ==
    IF i > Len(s) \/ s[i] \notin set THEN 0 ELSE 1 + RunLen(s, i + 1, set)

\* 10\.\d{4,9}/[^\s\]]+ matched at position i: the length matched, 0 if none
DoiMatchLen(s, i) ==
    IF ~(i + 2 <= Len(s) /\ s[i] = "1" /\ s[i + 1] = "0" /\ s[i + 2] = ".") THEN 0
    ELSE LET nd == RunLen(s, i + 3, Digits)
             j  == i + 3 + nd
         IN  IF ~(nd \in 4..9 /\ j <= Len(s) /\ s[j] = "/") THEN 0
             ELSE LET tail == CHOOSE n \in 0..Len(s) :
                                /\ \A k \in (j + 1)..(j + n) :
                                       k <= Len(s) /\ s[k] \notin (Whitespace \cup {"]"})
                                /\ (j + n + 1 > Len(s)
                                    \/ s[j + n + 1] \in (Whitespace \cup {"]"}))
                  IN  IF tail = 0 THEN 0 ELSE 3 + nd + 1 + tail

\* re.search(r"(10\.\d{4,9}/[^\s\]]+)", line): group 1 of the leftmost match,
\* <<>> when there is none
SearchDoi(line) ==
    IF \E i \in 1..Len(line) : DoiMatchLen(line, i) > 0
    THEN LET i == CHOOSE k \in 1..Len(line) :
                    DoiMatchLen(line, k) > 0 /\ \A j \in 1..(k - 1) : DoiMatchLen(line, j) = 0
         IN  SubSeq(line, i, i + DoiMatchLen(line, i) - 1)
    ELSE <<>>

\* faulty variant: the continuation is appended without the space
Continued_NoSpace(value, line) == Strip(value \o Strip(line))

\* line 407: (value + " " + line.strip()).strip()
Continued(value, line) == Strip(value \o <<" ">> \o Strip(line))

\* faulty variant: a continuation line is also appended to the pmid
ContinuedKeys_WithPmid == {"title", "abstract", "pmid"}

\* line 406: if last_key in ("title", "abstract")
ContinuedKeys == {"title", "abstract"}

\* faulty variant: the record is emitted and kept
EmitAndReset_KeepsRecord(st) ==
    [st EXCEPT !.papers = Append(st.papers, FinalizePaper(st.current))]

\* lines 400-402: emit the record, start an empty one, forget last_key
EmitAndReset(st) ==
    [papers   |-> Append(st.papers, FinalizePaper(st.current)),
     current  |-> EmptyDict,
     last_key |-> ""]

\* One physical line; st = [papers, current, last_key], last_key "" for None
ParseLine(st, line) ==
    IF Strip(line) = <<>>
    THEN IF DOMAIN st.current # {}
         THEN EmitAndReset(st)
         ELSE st
    ELSE IF StartsWith(line, Continuation)
    THEN IF st.last_key \in ContinuedKeys
         THEN [st EXCEPT !.current =
                  Put(st.current, st.last_key,
                      Continued(Get(st.current, st.last_key, <<>>), line))]
         ELSE st
    ELSE IF StartsWith(line, KeyPMID)
    THEN [st EXCEPT !.current = Put(st.current, "pmid", Strip(DropFirst(line, 6))),
                    !.last_key = "pmid"]
    ELSE IF StartsWith(line, KeyTI)
    THEN [st EXCEPT !.current = Put(st.current, "title", Strip(DropFirst(line, 6))),
                    !.last_key = "title"]
    ELSE IF StartsWith(line, KeyAB)
    THEN [st EXCEPT !.current = Put(st.current, "abstract", Strip(DropFirst(line, 6))),
                    !.last_key = "abstract"]
    ELSE IF StartsWith(line, KeyAU)
    THEN [st EXCEPT !.current =
             Put(st.current, "authors",
                 Append(Get(st.current, "authors", <<>>), Strip(DropFirst(line, 6)))),
                    !.last_key = "authors"]
    ELSE IF StartsWith(line, KeyTA)
    THEN [st EXCEPT !.current = Put(st.current, "journal", Strip(DropFirst(line, 6))),
                    !.last_key = "journal"]
    ELSE IF StartsWith(line, KeyDP)
    THEN [st EXCEPT !.current = Put(st.current, "date", Strip(DropFirst(line, 6))),
                    !.last_key = "date"]
    ELSE IF StartsWith(line, KeyAID)
    THEN [st EXCEPT !.current = IF SearchDoi(line) # <<>>
                                THEN Put(st.current, "doi", SearchDoi(line))
                                ELSE st.current,
                    !.last_key = "aid"]
    ELSE [st EXCEPT !.last_key = ""]

RECURSIVE ParseLines(_, _)
ParseLines(st, lines) ==
    IF lines = <<>> THEN st ELSE ParseLines(ParseLine(st, Head(lines)), Tail(lines))

\* href.strip("/").split("/")[-1]
HrefId(href) ==
    LET segs == SplitOn(StripChar(href, "/"), "/") IN segs[Len(segs)]

\* lines 436-440: what follows the loop over the lines
ParseTail(st, href) ==
    LET current == Put(st.current, "pmid", HrefId(href))
    IN  IF DOMAIN current # {}
        THEN Append(st.papers, FinalizePaper(current))
        ELSE st.papers

ParseMedlineFormat(medline_text, href) ==
    ParseTail(ParseLines([papers |-> <<>>, current |-> EmptyDict, last_key |-> ""],
                         SplitLines(medline_text)),
              href)

(***************************************************************************)
(* PubMedScraper._extract_hrefs_from_page                                   *)
(* A page is the sequence of href values of the anchors the selector        *)
(* article.full-docsum a.docsum-title[href] finds, in document order.       *)
(***************************************************************************)
\* re.search(r"/(\d+)/?$", href) finds a match
NumericTail(href) ==
    LET t == IF EndsWith(href, <<"/">>) THEN SubSeq(href, 1, Len(href) - 1) ELSE href
    IN  \E n \in 1..Len(t) :
          /\ n < Len(t)
          /\ \A k \in (Len(t) - n + 1)..Len(t) : t[k] \in Digits
          /\ t[Len(t) - n] = "/"

\* lines 346-356 for one anchor: the hrefs it contributes (none or one)
ExtractHref(raw) ==
    LET stripped == Strip(raw)
        noquery  == SplitOn(stripped, "?")[1]
        rooted   == IF StartsWith(noquery, <<"/">>) THEN noquery ELSE <<"/">> \o noquery
    IN  IF stripped = <<>> THEN <<>>
        ELSE IF NumericTail(rooted)
        THEN << IF EndsWith(rooted, <<"/">>) THEN rooted ELSE rooted \o <<"/">> >>
        ELSE <<>>

RECURSIVE ExtractHrefsFromPage(_)
ExtractHrefsFromPage(anchors) ==
    IF anchors = <<>> THEN <<>>
    ELSE ExtractHref(Head(anchors)) \o ExtractHrefsFromPage(Tail(anchors))

(***************************************************************************)
(* Bounds of the model                                                      *)
(***************************************************************************)
\* largest target count drawn for max_results
MaxResults == 2

\* the feed of Source A: MaxLead unusable entries at most, then at most
\* MaxBody entries of any kind
MaxLead == 6

MaxBody == 2

\* the listing of Source B: no lead pages or LongLead of them, then at most
\* MaxBodyPages pages of any kind
LongLead == 20

MaxBodyPages == 2

\* largest max_retries drawn for a _get call of its own
MaxRetries == 3

(***************************************************************************)
(* Program constants                                                        *)
(***************************************************************************)
\* batch_size = max_results * 2
BatchFactor == 2

\* start_index > max_results * 5
SearchLimitFactor == 5

\* max_pages = 20
MaxPages == 20

\* max_retries: int = 3
DefaultMaxRetries == 3

\* delay_seconds: float = 0.7, in tenths of a second
DefaultDelay == 7

(***************************************************************************)
(* Source A: the entries the search endpoint holds, newest first            *)
(***************************************************************************)
Published == <<"2","0","2","4","-","0","1","-","0","5","T","0","9",":","0","0","Z">>

EntryV1 ==
    [id |-> <<"a","/","1">>, authors |-> << <<"X">> , <<"Y">> >>, title |-> <<"T","\n","1">>,
     summary |-> <<"S">>, published |-> Published]

EntryV2 ==
    [id |-> <<"a","/","2">>, author |-> <<"Z">>, title |-> <<"T","2">>,
     summary |-> <<"S"," ">>, published |-> Published]

\* another entry with the identifier of EntryV1
EntryV1b ==
    [id |-> <<"b","/","1">>, authors |-> << <<"X">> >>, title |-> <<"U">>,
     summary |-> <<"S">>, published |-> Published]

\* authors joins to whitespace only
EntryBlankAuthor ==
    [id |-> <<"a","/","3">>, authors |-> << <<" ">> >>, title |-> <<"T","3">>,
     summary |-> <<"S">>, published |-> Published]

\* no id attribute: the entry raises while it is parsed
EntryNoId == [title |-> <<"T","4">>, summary |-> <<"S">>, published |-> Published]

\* the date does not parse
EntryBadDate ==
    [id |-> <<"a","/","9">>, authors |-> << <<"X">> >>, title |-> <<"T","9">>,
     summary |-> <<"S">>, published |-> <<"g","a","r","b","a","g","e">>]

BodyEntries == {EntryV1, EntryV2, EntryV1b, EntryBlankAuthor, EntryNoId}

SeqsUpTo(S, n) == UNION {[1..k -> S] : k \in 0..n}

Feeds ==
    {[i \in 1..lead |-> EntryBadDate] \o body :
        lead \in 0..MaxLead, body \in SeqsUpTo(BodyEntries, MaxBody)}

\* the entries a query (start, max_results = size) is answered with
Window(src, start, size) ==
    IF start >= Len(src) THEN <<>>
    ELSE SubSeq(src, start + 1, IF start + size <= Len(src) THEN start + size ELSE Len(src))

(***************************************************************************)
(* Source B: listing pages and the MEDLINE text behind each detail link     *)
(***************************************************************************)
Lines(seq) == Join(<<"\n">>, seq)

\* a complete record, closed by a blank line
Medline1 ==
    Lines(<< KeyPMID \o <<"1">>,
             KeyTI \o <<"A">>,
             Continuation \o <<"B">>,
             KeyAB \o <<"C">>,
             KeyAU \o <<"X">>,
             KeyAU \o <<"Y">>,
             KeyTA \o <<"J">>,
             KeyDP \o <<"2","0","2","4"," ","J","a","n"," ","1","5">>,
             KeyAID \o <<"1","0",".","1","2","3","4","/","a"," ","[","d","o","i","]">>,
             <<>> >>) \o <<"\n">>

\* a complete record that ends with the input, no PMID line
Medline2 ==
    Lines(<< KeyTI \o <<"D">>,
             KeyAB \o <<"E">>,
             KeyAU \o <<"Z">>,
             KeyTA \o <<"J">>,
             KeyDP \o <<"2","0","2","4"," ","F","e","b">>,
             KeyAID \o <<"1","0",".","1","2","3","4","/","b"," ","[","d","o","i","]">> >>)

\* a record without abstract
Medline3 ==
    Lines(<< KeyPMID \o <<"3">>,
             KeyTI \o <<"F">>,
             KeyAU \o <<"X">>,
             KeyTA \o <<"J">>,
             KeyDP \o <<"2","0","2","4">>,
             KeyAID \o <<"1","0",".","1","2","3","4","/","c"," ","[","d","o","i","]">>,
             <<>> >>) \o <<"\n">>

Anchor1 == <<"/","1","/">>

Anchor2 == <<"/","2","/">>

Anchor3 == <<"/","3","/">>

\* what GET <base><href>?format=pubmed serves
DetailText(href) ==
    IF HrefId(href) = <<"1">> THEN Medline1
    ELSE IF HrefId(href) = <<"2">> THEN Medline2
    ELSE Medline3

\* listing pages, each the anchors of its result items
PageKinds ==
    { <<>>, <<Anchor1>>, <<Anchor2>>, <<Anchor3>>, <<Anchor1, Anchor1>>, <<Anchor1, Anchor2>> }

LeadPage == <<Anchor3>>

Listings ==
    {[lead |-> lead, body |-> body] :
        lead \in {0, LongLead}, body \in SeqsUpTo(PageKinds, MaxBodyPages)}

NoListing == [lead |-> 0, body |-> <<>>]

\* what GET trending/?page=p serves: past the last page, a page without results
ListingPage(src, p) ==
    IF p <= src.lead THEN LeadPage
    ELSE IF p - src.lead <= Len(src.body) THEN src.body[p - src.lead]
    ELSE <<>>

(***************************************************************************)
(* PubMedScraper._get: one iteration of the retry loop                      *)
(***************************************************************************)
Statuses == {200, 404, 429, 500, 502, 503, 504}

Response(st) == [kind |-> "response", status |-> st]

Exception == [kind |-> "exception", status |-> 0]

\* what one session.get does: answer with a status, or raise
Outcomes == {Response(st) : st \in Statuses} \cup {Exception}

\* the outcomes drawn for the fetches of a harvest
HarvestOutcomes == {Response(200), Response(404), Response(503)}

DelayInputs == {DefaultDelay, 10}

\* a body served to a _get call of its own
SampleBody == <<"o","k">>

Idle == [ret |-> "idle", body |-> <<>>]

Pending == [ret |-> "pending", body |-> <<>>]

None == [ret |-> "None", body |-> <<>>]

Raised == [ret |-> "raised", body |-> <<>>]

\* line 373
RetriableStatuses == {429, 500, 502, 503, 504}

\* lines 374 and 382: self.delay * attempt * 1.6, in hundredths of a second
\* (delay is held in tenths)
Backoff(base_delay, attempt) == base_delay * attempt * 16

\* faulty variant: the exception is not caught
OnException_Propagates == [ret |-> "raised", sleep |-> FALSE]

\* lines 380-384: except Exception
OnException == [ret |-> "pending", sleep |-> TRUE]

\* faulty variant: every status but 200 is retried
OnResponse_RetriesAnyFailure(status) ==
    IF status = 200 THEN [ret |-> "body", sleep |-> FALSE]
    ELSE [ret |-> "pending", sleep |-> TRUE]

\* lines 371-379: by status
OnResponse(status) ==
    IF status = 200 THEN [ret |-> "body", sleep |-> FALSE]
    ELSE IF status \in RetriableStatuses THEN [ret |-> "pending", sleep |-> TRUE]
    ELSE [ret |-> "None", sleep |-> FALSE]

OnOutcome(o) == IF o.kind = "exception" THEN OnException ELSE OnResponse(o.status)

\* faulty variant: one attempt more than max_retries
LoopEnds_OffByOne(attempt, retries) == attempt > retries

\* line 368: range(1, max_retries + 1) is used up after this attempt
LoopEnds(attempt, retries) == attempt >= retries

\* the result after attempt number `attempt` with outcome o, served `body`
AfterAttempt(o, attempt, retries, body) ==
    LET r == OnOutcome(o)
    IN  IF r.ret = "body" THEN [ret |-> "body", body |-> body]
        ELSE IF r.ret = "None" THEN None
        ELSE IF r.ret = "raised" THEN Raised
        ELSE IF LoopEnds(attempt, retries) THEN None
        ELSE Pending

(***************************************************************************)
(* get_trending_papers, lines 275-281: the papers of one detail page        *)
(***************************************************************************)
RECURSIVE AppendValid(_, _, _)
AppendValid(collected, batch, n) ==
    IF batch = <<>> THEN collected
    ELSE IF PubmedIsPaperValid(Head(batch))
    THEN IF Len(collected) + 1 >= n
         THEN Append(collected, Head(batch))
         ELSE AppendValid(Append(collected, Head(batch)), Tail(batch), n)
    ELSE AppendValid(collected, Tail(batch), n)

\* faulty variant: no page ceiling
PubmedContinues_NoCeiling(n_collected, p, n) == n_collected < n

\* line 254
PubmedContinues(n_collected, p, n) == n_collected < n /\ p <= MaxPages

\* lines 265-267: the for loop goes on to link i
ForContinues(n_collected, i, links, n) == i <= Len(links) /\ n_collected < n

\* the categories search_papers is called with on its own: the first
\* configured one and one that is not configured
CategoryInputs == {"computation_language", "quantum_physics"}

\* ARXIV_CONFIG['max_results_per_category']
MaxResultsPerCategory == 10

\* PUBMED_CONFIG['max_results']
PubmedMaxResults == 10

\* what the feed endpoint holds for a category when main runs
MainFeeds == { <<>>, <<EntryV1>>, <<EntryV1, EntryV2>> }

\* what the listing URL serves when main runs
MainListings == { NoListing, [lead |-> 0, body |-> << <<Anchor1, Anchor2>> >>] }

\* faulty variant: the loop skips every other category
NextCategory_Skips(i) == i + 2

\* line 575: the for loop moves to the next key
NextCategory(i) == i + 1

\* one entry of main's trace
Event(op, fn, cat, papers) == [op |-> op, fn |-> fn, category |-> cat, papers |-> papers]

\* the requests of the two harvest loops: line 103, line 256, line 269
Requests == {"query", "listing", "detail"}

\* the log with event e added; when e is a request, what came before the
\* request preceding it is dropped
Log(evs, e) ==
    LET at   == {i \in 1..Len(evs) : evs[i] \in Requests}
        from == CHOOSE i \in at : \A j \in at : j <= i
    IN  IF e \in Requests
        THEN (IF at = {} THEN <<>> ELSE SubSeq(evs, from, Len(evs))) \o <<e>>
        ELSE Append(evs, e)

\* faulty variant: the sleep is taken only after a batch that yielded records
SleepsAfterBatch_OnlyIfAccepted(n_valid) == n_valid > 0

\* line 130: time.sleep(request_delay) after any batch that did not break
SleepsAfterBatch(n_valid) == TRUE

\* faulty variant: the new records go in front
Extend_Prepends(collected, valid) == valid \o collected

\* line 118: collected_papers.extend(valid_papers)
Extend(collected, valid) == collected \o valid

\* no function is called on its own
NoArgs == [k \in {} |-> <<>>]

VARIABLES
    call,              \* the operation under way
    pc,                \* its position
    max_results,       \* target count
    collected_papers,  \* the list the harvester returns
    faithful,          \* history: every request so far was served, and as asked
    category, feed, seen_dois, start_index,
    queries,           \* history: how each search query issued so far ended
    listing,           \* Source B: what the listing URL serves, page by page
    page, hrefs, href_i, valid_papers_in_page,
    listing_fetches,   \* history: the page numbers _get was called for
    max_retries, delay, gets, outcomes, sleeps, getResult,
    args, ret,         \* a function called on its own: arguments, return value
    batch_papers,      \* search_papers: what the last response parsed to
    events             \* history: the requests issued and the time.sleep calls
                       \* of the harvest loops, back to the request before last
VARIABLES
    main_pc,           \* main: its position ("none": main is not running)
    category_i,        \* main: index of the category the for loop is at
    all_arxiv_papers, pubmed_papers,
    trace              \* history: the calls main made, their returns, the
                       \* lists handed to the sinks

common == <<call, pc, max_results, collected_papers, faithful>>

varsA == <<category, feed, seen_dois, start_index, queries>>

varsB == <<listing, page, hrefs, href_i, valid_papers_in_page, listing_fetches>>

\* the scraper's settings
settings == <<max_retries, delay>>

\* one _get call: GETs made, what each met, the sleeps taken, the result
varsGet == <<gets, outcomes, sleeps, getResult>>

varsFn == <<args, ret>>

varsTrace == <<batch_papers, events>>

varsMain == <<main_pc, category_i, all_arxiv_papers, pubmed_papers, trace>>

vars == <<common, varsA, varsB, settings, varsGet, varsFn, varsTrace, varsMain>>

\* main is not running
NoMain ==
    /\ main_pc = "none" /\ category_i = 0
    /\ all_arxiv_papers = <<>> /\ pubmed_papers = <<>> /\ trace = <<>>

(***************************************************************************)
(* ArXivScraper.search_papers                                               *)
(***************************************************************************)
InitSearch(targets) ==
    /\ call = "search_papers"
    /\ pc = "call"
    /\ max_results \in targets
    /\ category \in CategoryInputs
    /\ feed \in Feeds
    /\ collected_papers = <<>>
    /\ seen_dois = {}
    /\ start_index = 0
    /\ queries = <<>>
    /\ faithful = TRUE
    /\ listing = NoListing /\ page = 1 /\ hrefs = <<>> /\ href_i = 0
    /\ valid_papers_in_page = 0
    /\ listing_fetches = <<>>
    /\ args = NoArgs /\ ret = <<>>
    /\ batch_papers = <<>> /\ events = <<>>
    /\ NoMain
    /\ max_retries = DefaultMaxRetries /\ delay = DefaultDelay
    /\ gets = 0 /\ outcomes = <<>> /\ sleeps = <<>> /\ getResult = Idle

InitA == InitSearch(0..MaxResults)

BatchSize(n) == n * BatchFactor

\* faulty variant: after a productive batch, advance by the number accepted
NextStart_ByAccepted(start, n_valid, n_batch, n) ==
    IF n_valid = 0 THEN start + BatchSize(n) ELSE start + n_valid

\* lines 122-128: the index after a batch
NextStart(start, n_valid, n_batch, n) ==
    IF n_valid = 0 THEN start + BatchSize(n) ELSE start + n_batch

\* faulty variant: the search limit is three times the target
LimitReached_Early(start, n_valid, n_batch, n) ==
    n_valid = 0 /\ NextStart(start, n_valid, n_batch, n) > n * 3

\* faulty variant: the search limit is seven times the target
LimitReached_Late(start, n_valid, n_batch, n) ==
    n_valid = 0 /\ NextStart(start, n_valid, n_batch, n) > n * 7

\* lines 122-126: the search limit ends the category
LimitReached(start, n_valid, n_batch, n) ==
    n_valid = 0 /\ NextStart(start, n_valid, n_batch, n) > n * SearchLimitFactor

\* line 93
ArxivContinues(n_collected, n) == n_collected < n

\* faulty variant: the handler lets the exception out
OnQueryException_Propagates == "raise"

\* lines 132-134: except Exception, log, break
OnQueryException == "break"

\* lines 81-93: the category check and the first loop test
A_Call ==
    /\ call = "search_papers" /\ pc = "call"
    /\ pc' = IF category \notin Categories THEN "raised"
             ELSE IF ArxivContinues(Len(collected_papers), max_results)
                  THEN "A_query" ELSE "returned"
    /\ UNCHANGED <<call, max_results, collected_papers, faithful, varsA, varsB, settings,
                   varsGet, varsFn, varsTrace, varsMain>>

\* lines 94-130 with a response that parses to `entries`
A_Batch(entries, asAsked) ==
    LET batch == ParseArxivResponse(entries, CategorySection[category])
        acc   == FilterBatch(batch, [valid |-> <<>>, seen |-> seen_dois],
                             Len(collected_papers), max_results)
        nv    == Len(acc.valid)
    IN  /\ batch_papers' = batch
        /\ collected_papers' = Extend(collected_papers, acc.valid)
        /\ seen_dois' = acc.seen
        /\ start_index' = NextStart(start_index, nv, Len(batch), max_results)
        /\ pc' = IF LimitReached(start_index, nv, Len(batch), max_results)
                 THEN "returned"
                 ELSE IF ArxivContinues(Len(collected_papers'), max_results)
                      THEN "A_query" ELSE "returned"
        /\ faithful' = (faithful /\ asAsked)
        /\ queries' = Append(queries, "ok")
        /\ events' = IF ~LimitReached(start_index, nv, Len(batch), max_results)
                         /\ SleepsAfterBatch(nv)
                      THEN Append(Log(events, "query"), "sleep")
                      ELSE Log(events, "query")
        /\ UNCHANGED <<call, max_results, category, feed, varsB, settings, varsGet, varsFn, varsMain>>

\* the endpoint answers the query with the window asked for
A_QueryServed ==
    /\ pc = "A_query"
    /\ A_Batch(Window(feed, start_index, BatchSize(max_results)), TRUE)

\* the endpoint answers with the first window again, whatever start was
A_QueryRepeated ==
    /\ pc = "A_query"
    /\ start_index > 0
    /\ A_Batch(Window(feed, 0, BatchSize(max_results)), FALSE)

\* the body is no feed: feedparser yields no entries
A_QueryMalformed ==
    /\ pc = "A_query"
    /\ A_Batch(<<>>, FALSE)

\* lines 132-134: the request raises (transport error, raise_for_status)
A_QueryFails ==
    /\ pc = "A_query"
    /\ pc' = IF OnQueryException = "break" THEN "returned" ELSE "raised"
    /\ faithful' = FALSE
    /\ queries' = Append(queries, "error")
    /\ events' = Log(events, "query")
    /\ UNCHANGED <<call, max_results, collected_papers, category, feed, seen_dois,
                   start_index, varsB, settings, varsGet, varsFn, batch_papers, varsMain>>

NextA == A_Call \/ A_QueryFails \/ A_QueryMalformed \/ A_QueryServed \/ A_QueryRepeated

\* the lowest target count drawn is -MaxNegative
MaxNegative == 1

InitSearchAny == InitSearch((0 - MaxNegative)..MaxResults)

\* one call of search_papers, for any target count; the call is sequential
\* code, so a step that can be taken is taken
SpecSearch == InitSearchAny /\ [][NextA]_vars /\ WF_vars(NextA)

(***************************************************************************)
(* PubMedScraper._get                                                       *)
(***************************************************************************)
GetPcs == {"get", "listing_get", "detail_get"}

\* the text the server holds for the URL being fetched
ServedBody ==
    IF pc = "listing_get" THEN ListingPage(listing, page)
    ELSE IF pc = "detail_get" THEN DetailText(hrefs[href_i])
    ELSE SampleBody

StartGet ==
    /\ gets' = 0 /\ outcomes' = <<>> /\ sleeps' = <<>> /\ getResult' = Pending

LeaveGet ==
    /\ gets' = 0 /\ outcomes' = <<>> /\ sleeps' = <<>> /\ getResult' = Idle

InitGet ==
    /\ call = "_get"
    /\ pc = "get"
    /\ max_retries \in 1..MaxRetries
    /\ delay \in DelayInputs
    /\ gets = 0 /\ outcomes = <<>> /\ sleeps = <<>> /\ getResult = Pending
    /\ max_results = 0 /\ collected_papers = <<>> /\ faithful = TRUE
    /\ category = "computation_language" /\ feed = <<>> /\ seen_dois = {} /\ start_index = 0
    /\ queries = <<>>
    /\ listing = NoListing /\ page = 1 /\ hrefs = <<>> /\ href_i = 0
    /\ valid_papers_in_page = 0
    /\ listing_fetches = <<>>
    /\ args = NoArgs /\ ret = <<>>
    /\ batch_papers = <<>> /\ events = <<>>
    /\ NoMain

\* lines 368-384: attempt number gets + 1
G_Attempt(o) ==
    /\ pc \in GetPcs
    /\ getResult.ret = "pending"
    /\ gets' = gets + 1
    /\ outcomes' = Append(outcomes, o)
    /\ sleeps' = IF OnOutcome(o).sleep
                 THEN Append(sleeps, Backoff(delay, gets + 1)) ELSE sleeps
    /\ getResult' = AfterAttempt(o, gets + 1, max_retries, ServedBody)
    /\ UNCHANGED <<common, varsA, varsB, settings, varsFn, varsTrace, varsMain>>

G_Get == \E o \in (IF call = "_get" THEN Outcomes ELSE HarvestOutcomes) : G_Attempt(o)

(***************************************************************************)
(* PubMedScraper.get_trending_papers                                        *)
(***************************************************************************)
InitB ==
    /\ call = "get_trending_papers"
    /\ pc = "call"
    /\ max_results \in 0..MaxResults
    /\ listing \in Listings
    /\ collected_papers = <<>>
    /\ page = 1 /\ hrefs = <<>> /\ href_i = 0
    /\ valid_papers_in_page = 0
    /\ listing_fetches = <<>>
    /\ args = NoArgs /\ ret = <<>>
    /\ batch_papers = <<>> /\ events = <<>>
    /\ NoMain
    /\ faithful = TRUE
    /\ max_retries = DefaultMaxRetries /\ delay = DefaultDelay
    /\ gets = 0 /\ outcomes = <<>> /\ sleeps = <<>> /\ getResult = Idle
    /\ category = "computation_language" /\ feed = <<>> /\ seen_dois = {} /\ start_index = 0
    /\ queries = <<>>

\* line 254 at the top of the while loop, then line 256 or line 293
B_LoopTest(n_collected, p, evs) ==
    IF PubmedContinues(n_collected, p, max_results)
    THEN /\ pc' = "listing_get" /\ StartGet
         /\ listing_fetches' = Append(listing_fetches, p)
         /\ events' = Log(evs, "listing")
    ELSE /\ pc' = "returned" /\ LeaveGet
         /\ listing_fetches' = listing_fetches
         /\ events' = evs

\* lines 247-256
B_Call ==
    /\ call = "get_trending_papers" /\ pc = "call"
    /\ B_LoopTest(Len(collected_papers), page, events)
    /\ UNCHANGED <<call, max_results, collected_papers, faithful, varsA, listing, page,
                   hrefs, href_i, valid_papers_in_page, settings, varsFn, batch_papers, varsMain>>

\* lines 265-269 for link i, or lines 285-290 and the next loop test
B_ForTest(n_collected, i, evs) ==
    IF ForContinues(n_collected, i, hrefs', max_results)
    THEN /\ href_i' = i
         /\ page' = page
         /\ pc' = "detail_get" /\ StartGet
         /\ events' = Log(evs, "detail")
         /\ UNCHANGED listing_fetches
    ELSE /\ href_i' = 0
         /\ page' = page + 1
         /\ B_LoopTest(n_collected, page + 1, evs)

\* lines 257-269: the listing page came back
B_AfterListing ==
    /\ pc = "listing_get"
    /\ getResult.ret \notin {"pending", "idle"}
    /\ IF getResult.ret = "raised"
       THEN /\ pc' = "raised" /\ LeaveGet
            /\ UNCHANGED <<faithful, page, hrefs, href_i, valid_papers_in_page,
                           listing_fetches, events>>
       ELSE IF getResult.ret = "None"
       THEN /\ pc' = "returned" /\ LeaveGet
            /\ faithful' = FALSE
            /\ UNCHANGED <<page, hrefs, href_i, valid_papers_in_page, listing_fetches,
                           events>>
       ELSE /\ hrefs' = ExtractHrefsFromPage(getResult.body)
            /\ faithful' = faithful
            /\ IF hrefs' = <<>>
               THEN /\ pc' = "returned" /\ LeaveGet
                    /\ UNCHANGED <<page, href_i, valid_papers_in_page, listing_fetches,
                                   events>>
               ELSE /\ valid_papers_in_page' = 0
                    /\ B_ForTest(Len(collected_papers), 1, events)
    /\ UNCHANGED <<call, max_results, collected_papers, varsA, listing, settings, varsFn,
                   batch_papers, varsMain>>

\* faulty variant: an absent detail page ends the for loop
OnDetailAbsent_Breaks == "break"

\* lines 270-271: if not medline_text: continue
OnDetailAbsent == "continue"

\* lines 270-290: the detail page came back
B_AfterDetail ==
    /\ pc = "detail_get"
    /\ getResult.ret \notin {"pending", "idle"}
    /\ IF getResult.ret = "raised"
       THEN /\ pc' = "raised" /\ LeaveGet
            /\ UNCHANGED <<faithful, collected_papers, page, hrefs, href_i,
                           valid_papers_in_page, listing_fetches, events>>
       ELSE /\ hrefs' = hrefs
            /\ IF getResult.body = <<>>
               THEN /\ collected_papers' = collected_papers
                    /\ faithful' = FALSE
                    /\ B_ForTest(Len(collected_papers),
                                 IF OnDetailAbsent = "continue"
                                 THEN href_i + 1 ELSE Len(hrefs) + 1,
                                 events)
               ELSE /\ collected_papers' =
                          AppendValid(collected_papers,
                                      ParseMedlineFormat(getResult.body, hrefs[href_i]),
                                      max_results)
                    /\ faithful' = faithful
                    /\ B_ForTest(Len(collected_papers'), href_i + 1,
                                 Log(events, "sleep"))
            /\ valid_papers_in_page' =
                   valid_papers_in_page + Len(collected_papers') - Len(collected_papers)
    /\ UNCHANGED <<call, max_results, varsA, listing, settings, varsFn, batch_papers, varsMain>>

NextB == B_Call \/ B_AfterListing \/ B_AfterDetail

Init == InitA \/ InitB \/ InitGet

Next == NextA \/ NextB \/ G_Get

Spec == Init /\ [][Next]_vars

(***************************************************************************)
(* main, lines 565-596                                                      *)
(***************************************************************************)
\* faulty variant: the set holds the DOIs of the earlier categories
InitialSeen_Shared(earlier) == {earlier[i].doi : i \in 1..Len(earlier)}

\* line 87: seen_dois: Set[str] = set()
InitialSeen(earlier) == {}

\* the locals of search_papers before a call and after its return
SearchLocalsAtRest(seen) ==
    /\ collected_papers' = <<>> /\ seen_dois' = seen /\ start_index' = 0
    /\ queries' = <<>> /\ faithful' = TRUE
    /\ batch_papers' = <<>> /\ events' = <<>>

\* lines 571-574
InitMain ==
    /\ call = "main" /\ pc = "main"
    /\ main_pc = "for" /\ category_i = 1
    /\ all_arxiv_papers = <<>> /\ pubmed_papers = <<>> /\ trace = <<>>
    /\ max_results = 0 /\ collected_papers = <<>> /\ faithful = TRUE
    /\ category = "computation_language" /\ feed = <<>> /\ seen_dois = {} /\ start_index = 0
    /\ queries = <<>>
    /\ listing = NoListing /\ page = 1 /\ hrefs = <<>> /\ href_i = 0
    /\ valid_papers_in_page = 0
    /\ listing_fetches = <<>>
    /\ max_retries = DefaultMaxRetries /\ delay = DefaultDelay
    /\ gets = 0 /\ outcomes = <<>> /\ sleeps = <<>> /\ getResult = Idle
    /\ args = NoArgs /\ ret = <<>>
    /\ batch_papers = <<>> /\ events = <<>>

\* lines 575-577: the loop has a category left and calls search_papers
M_CallSearch ==
    /\ main_pc = "for" /\ category_i <= Len(CategoryOrder)
    /\ main_pc' = "search_papers"
    /\ call' = "search_papers" /\ pc' = "call"
    /\ category' = CategoryOrder[category_i]
    /\ max_results' = MaxResultsPerCategory
    /\ \E f \in MainFeeds : feed' = f
    /\ SearchLocalsAtRest(InitialSeen(all_arxiv_papers))
    /\ trace' = Append(trace, Event("call", "search_papers", category', <<>>))
    /\ UNCHANGED <<category_i, all_arxiv_papers, pubmed_papers, varsB, settings, varsGet,
                   varsFn>>

\* lines 577-580: search_papers returned
M_AfterSearch ==
    /\ main_pc = "search_papers" /\ call = "search_papers" /\ pc = "returned"
    /\ all_arxiv_papers' = all_arxiv_papers \o collected_papers
    /\ trace' = Append(trace, Event("return", "search_papers", category, collected_papers))
    /\ category_i' = NextCategory(category_i)
    /\ main_pc' = "for"
    /\ call' = "main" /\ pc' = "main"
    /\ feed' = <<>>
    /\ SearchLocalsAtRest({})
    /\ UNCHANGED <<max_results, category, pubmed_papers, varsB, settings, varsGet, varsFn>>

\* line 583: the loop is over
M_SaveArxiv ==
    /\ main_pc = "for" /\ category_i > Len(CategoryOrder)
    /\ trace' = Append(trace, Event("call", "save_arxiv_data", "", all_arxiv_papers))
    /\ main_pc' = "pubmed"
    /\ UNCHANGED <<common, varsA, varsB, settings, varsGet, varsFn, varsTrace,
                   category_i, all_arxiv_papers, pubmed_papers>>

\* lines 587-588
M_CallTrending ==
    /\ main_pc = "pubmed"
    /\ main_pc' = "get_trending_papers"
    /\ call' = "get_trending_papers" /\ pc' = "call"
    /\ max_results' = PubmedMaxResults
    /\ \E l \in MainListings : listing' = l
    /\ trace' = Append(trace, Event("call", "get_trending_papers", "", <<>>))
    /\ UNCHANGED <<collected_papers, faithful, varsA, page, hrefs, href_i,
                   valid_papers_in_page, listing_fetches, settings, varsGet, varsFn,
                   varsTrace, category_i, all_arxiv_papers, pubmed_papers>>

\* line 588: get_trending_papers returned
M_AfterTrending ==
    /\ main_pc = "get_trending_papers" /\ call = "get_trending_papers" /\ pc = "returned"
    /\ pubmed_papers' = collected_papers
    /\ trace' = Append(trace, Event("return", "get_trending_papers", "", collected_papers))
    /\ main_pc' = "save"
    /\ call' = "main" /\ pc' = "main"
    /\ UNCHANGED <<max_results, collected_papers, faithful, varsA, varsB, settings, varsGet,
                   varsFn, varsTrace, category_i, all_arxiv_papers>>

\* line 591
M_SavePubmed ==
    /\ main_pc = "save"
    /\ trace' = Append(trace, Event("call", "save_pubmed_data", "", pubmed_papers))
    /\ main_pc' = "done"
    /\ UNCHANGED <<common, varsA, varsB, settings, varsGet, varsFn, varsTrace,
                   category_i, all_arxiv_papers, pubmed_papers>>

NextMain ==
    \/ M_CallSearch \/ M_AfterSearch \/ M_SaveArxiv
    \/ M_CallTrending \/ M_AfterTrending \/ M_SavePubmed
    \/ NextA \/ NextB \/ G_Get

SpecMain == InitMain /\ [][NextMain]_vars

(***************************************************************************)
(* Functions called on their own: _parse_medline_format and                 *)
(* _extract_hrefs_from_page, on every input made of a few sample lines      *)
(* (anchors)                                                                *)
(***************************************************************************)
\* most lines of a MEDLINE text drawn as an input
MaxLines == 5

\* most anchors of a listing page drawn as an input
MaxAnchors == 2

LinePMID == KeyPMID \o <<"7">>

LineTI == KeyTI \o <<"A">>

LineCont == Continuation \o <<"B">>

LineAB == KeyAB \o <<"C">>

LineBlank == <<>>

LineKinds == {LinePMID, LineTI, LineCont, LineAB, LineBlank}

\* most lines of a text drawn from every kind of line
MaxFrameLines == 3

LineAU == KeyAU \o <<"X">>

LineTA == KeyTA \o <<"J">>

LineDP == KeyDP \o <<"2","0","2","4">>

LineAID == KeyAID \o <<"1","0",".","1","2","3","4","/","a"," ","[","d","o","i","]">>

\* a non-blank line that starts with no key and is no continuation
LineOther == <<"S","O"," "," ","-"," ","q">>

FrameKinds ==
    LineKinds \cup {LineAU, LineTA, LineDP, LineAID, LineOther}

\* the text whose lines are `lines`, each ended by a newline
RECURSIVE Terminated(_)
Terminated(lines) ==
    IF lines = <<>> THEN <<>> ELSE Head(lines) \o <<"\n">> \o Terminated(Tail(lines))

\* the detail-page link handed to the parser
HrefInput == <<"/","9","/">>

\* href attributes of the anchors of a listing page
AnchorKinds ==
    { <<"/","3","1","/","?","f","=","1">>,
      <<"/","a","b","c","/">>,
      <<"/","a","/","7">>,
      <<"h",":","/","/","x","/","7","/">>,
      <<" ","/","7","/"," ">>,
      <<"7">>,
      <<"/","7","x","/">>,
      <<" ">> }

\* most tokens of a date text drawn as an input
MaxTokens == 4

DateTokens ==
    { <<"2","0","2","4">>, <<"J","a","n">>, <<"D","e","c">>, <<"X","y","z">>,
      <<"1","5">>, <<"5">>, <<"w","o","r","d">>, <<"g","a","r","b","a","g","e">> }

\* texts of up to MaxTokens tokens separated by one space, and a blank text
DateInputs ==
    {Join(<<" ">>, tokens) : tokens \in SeqsUpTo(DateTokens, MaxTokens)} \cup { <<" ">> }

\* every variable of the harvesters and of _get at rest
AtRest ==
    /\ max_results = 0 /\ collected_papers = <<>> /\ faithful = TRUE
    /\ category = "computation_language" /\ feed = <<>> /\ seen_dois = {} /\ start_index = 0
    /\ queries = <<>>
    /\ listing = NoListing /\ page = 1 /\ hrefs = <<>> /\ href_i = 0
    /\ valid_papers_in_page = 0
    /\ listing_fetches = <<>>
    /\ max_retries = DefaultMaxRetries /\ delay = DefaultDelay
    /\ gets = 0 /\ outcomes = <<>> /\ sleeps = <<>> /\ getResult = Idle
    /\ batch_papers = <<>> /\ events = <<>>
    /\ NoMain

InitParse ==
    /\ call = "_parse_medline_format"
    /\ pc = "call"
    /\ args \in {[medline_text |-> Terminated(lines), href |-> HrefInput] :
                    lines \in SeqsUpTo(LineKinds, MaxLines)
                                \cup SeqsUpTo(FrameKinds, MaxFrameLines)}
    /\ ret = <<>>
    /\ AtRest

InitExtract ==
    /\ call = "_extract_hrefs_from_page"
    /\ pc = "call"
    /\ args \in {[html |-> anchors] : anchors \in SeqsUpTo(AnchorKinds, MaxAnchors)}
    /\ ret = <<>>
    /\ AtRest

InitFormatDate ==
    /\ call = "_format_pubmed_date"
    /\ pc = "call"
    /\ args \in {[date_str |-> d] : d \in DateInputs}
    /\ ret = <<>>
    /\ AtRest

\* lines 389-440
Fn_Parse ==
    /\ call = "_parse_medline_format" /\ pc = "call"
    /\ ret' = ParseMedlineFormat(args.medline_text, args.href)
    /\ pc' = "returned"
    /\ UNCHANGED <<call, max_results, collected_papers, faithful, varsA, varsB, settings,
                   varsGet, varsTrace, varsMain, args>>

\* lines 338-358
Fn_Extract ==
    /\ call = "_extract_hrefs_from_page" /\ pc = "call"
    /\ ret' = ExtractHrefsFromPage(args.html)
    /\ pc' = "returned"
    /\ UNCHANGED <<call, max_results, collected_papers, faithful, varsA, varsB, settings,
                   varsGet, varsTrace, varsMain, args>>

\* lines 457-499
Fn_FormatDate ==
    /\ call = "_format_pubmed_date" /\ pc = "call"
    /\ ret' = FormatPubmedDate(args.date_str)
    /\ pc' = "returned"
    /\ UNCHANGED <<call, max_results, collected_papers, faithful, varsA, varsB, settings,
                   varsGet, varsTrace, varsMain, args>>

InitFn == InitParse \/ InitExtract \/ InitFormatDate

NextFn == Fn_Parse \/ Fn_Extract \/ Fn_FormatDate

SpecFn == InitFn /\ [][NextFn]_vars

(***************************************************************************)
(* What the sources hold, for the properties below                          *)
(***************************************************************************)
Harvesting == call \in {"search_papers", "get_trending_papers"}

\* identifiers of the valid records among feed entries
DoisA(entries) ==
    LET batch == ParseArxivResponse(entries, CategorySection["computation_language"])
    IN  {batch[i].doi : i \in {j \in 1..Len(batch) : ArxivIsPaperValid(batch[j])}}

\* the links of listing page p
PageLinks(p) == ExtractHrefsFromPage(ListingPage(listing, p))

\* identifiers of the valid records behind one detail link
LinkDois(href) ==
    LET batch == ParseMedlineFormat(DetailText(href), href)
    IN  {batch[i].doi : i \in {j \in 1..Len(batch) : PubmedIsPaperValid(batch[j])}}

\* the listing ends before its first page without links
ListingEnd ==
    (CHOOSE p \in 1..(listing.lead + Len(listing.body) + 1) :
        PageLinks(p) = <<>> /\ \A q \in 1..(p - 1) : PageLinks(q) # <<>>) - 1

DoisB(lastPage) ==
    UNION {UNION {LinkDois(PageLinks(p)[i]) : i \in 1..Len(PageLinks(p))} :
              p \in 1..lastPage}

\* distinct valid records the source holds over its whole pagination
Available ==
    IF call = "search_papers" THEN Cardinality(DoisA(feed))
    ELSE Cardinality(DoisB(ListingEnd))

\* distinct valid records within what the exhaustion guards let a harvest scan
WithinGuards ==
    IF call = "search_papers"
    THEN Cardinality(DoisA(Window(feed, 0, 5 * max_results + 1)))
    ELSE Cardinality(DoisB(IF ListingEnd < 20 THEN ListingEnd ELSE 20))

Returned == Harvesting /\ pc = "returned"

DedupKey(paper) == IF paper.doi # <<>> THEN paper.doi ELSE paper.pmid

NoDuplicateKeys(papers) ==
    \A i, j \in 1..Len(papers) : i # j => DedupKey(papers[i]) # DedupKey(papers[j])

IsPrefix(a, b) == Len(a) <= Len(b) /\ SubSeq(b, 1, Len(a)) = a

(***************************************************************************)
(* Properties                                                               *)
(***************************************************************************)
\* C1: for every target count N >= 0 and every sequence of responses, the
\* collected list of search_papers and of get_trending_papers never holds more
\* than N records, at any step of the harvest and when it is returned.
C1_CountWithinTarget == Harvesting => Len(collected_papers) <= max_results

\* C1 witness: search_papers returned a full list although the batch that
\* filled it held more acceptable candidates than there was room for.
C1_Witness ==
    /\ call = "search_papers" /\ pc = "returned"
    /\ max_results = 1 /\ Len(collected_papers) = 1
    /\ start_index = 2
    /\ Cardinality(DoisA(Window(feed, 0, 2))) = 2

\* C2 as stated: when no request fails and the source holds at least N distinct
\* valid records over its pagination, the harvester returns exactly N records,
\* wherever in the pagination they are.
C2_ExactWhereverLocated ==
    (Returned /\ faithful /\ Available >= max_results)
        => Len(collected_papers) = max_results

\* C2 amended: when no request fails and at least N distinct valid records lie
\* within what the exhaustion guards let the harvester scan (the first 5N + 1
\* feed entries for search_papers; the listing pages 1..20, before the first
\* page without links, for get_trending_papers), it returns exactly N records.
C2_ExactWithinGuards ==
    (Returned /\ faithful /\ WithinGuards >= max_results)
        => Len(collected_papers) = max_results

\* C2 witness: search_papers found its record in the third batch, after two
\* batches without any valid record.
C2_Witness ==
    /\ call = "search_papers" /\ pc = "returned" /\ faithful
    /\ max_results = 1 /\ Len(collected_papers) = 1
    /\ start_index > 4
    /\ WithinGuards >= max_results

\* C3: in the list of one get_trending_papers call no two records share the
\* dedup key (the DOI when present, else the numeric detail-page id), also when
\* a detail link occurs twice.
C3_UniqueKeysB ==
    call = "get_trending_papers" => NoDuplicateKeys(collected_papers)

\* C4: in the list of one search_papers call no two records have the same DOI,
\* whatever the batches; when a DOI recurs the record accepted first stays,
\* unchanged and in place, and the later candidate is discarded.
C4_UniqueDoiFirstKept ==
    [][call = "search_papers" =>
          /\ IsPrefix(collected_papers, collected_papers')
          /\ \A i, j \in 1..Len(collected_papers') :
                 i # j => collected_papers'[i].doi # collected_papers'[j].doi]_vars

\* C4 witness: the feed held two valid entries with one DOI, both were scanned
\* while there was room, and one record was kept.
C4_Witness ==
    /\ call = "search_papers" /\ pc = "returned" /\ faithful
    /\ max_results = 2 /\ Len(collected_papers) = 1
    /\ feed = <<EntryV1, EntryV1b>>
    /\ collected_papers[1].title = <<"T", " ", "1">>

\* C5: every record of a list collected by search_papers or get_trending_papers
\* has doi, title, authors, abstract, section (Source A) or journal (Source B),
\* and date non-empty after trimming.
C5_RequiredFieldsNonEmpty ==
    Harvesting =>
        \A i \in 1..Len(collected_papers) :
            \A f \in {"doi", "title", "authors", "abstract", "date",
                      IF call = "search_papers" THEN "section" ELSE "journal"} :
                Strip(collected_papers[i][f]) # <<>>

\* C5 witness: a harvest that scanned a candidate with whitespace-only authors
\* and accepted the valid candidate after it.
C5_Witness ==
    /\ call = "search_papers" /\ pc = "returned" /\ faithful
    /\ feed = <<EntryBlankAuthor, EntryV2>>
    /\ Len(collected_papers) = 1

\* C6: when the source holds fewer than N distinct valid records, the harvester
\* returns without raising and the list is shorter than N.
C6_ShortWhenExhausted ==
    (Harvesting /\ category \in Categories /\ pc \in {"returned", "raised"}
       /\ Available < max_results)
        => (pc = "returned" /\ Len(collected_papers) < max_results)

RetriableFailure(o) ==
    o.kind = "exception" \/ o.status \in {429, 500, 502, 503, 504}

TerminalFailure(o) ==
    o.kind = "response" /\ o.status \notin {200, 429, 500, 502, 503, 504}

\* C7: _get makes at most max_retries GET attempts, each attempt but the first
\* follows a retriable failure (429, 500, 502, 503, 504 or an exception), the
\* result is the body exactly when the last attempt met 200, and it is None
\* when all max_retries attempts were retriable failures.
C7_RetryUntil200 ==
    pc \in GetPcs =>
        LET k == Len(outcomes)
        IN  /\ gets = k
            /\ k <= max_retries
            /\ \A j \in 1..(k - 1) : RetriableFailure(outcomes[j])
            /\ (getResult.ret = "body") <=> (k >= 1 /\ outcomes[k] = Response(200))
            /\ getResult.ret = "body" => getResult.body = ServedBody
            /\ (k = max_retries /\ \A j \in 1..k : RetriableFailure(outcomes[j]))
                   => getResult.ret = "None"

\* C7 witness: 503, 503, 200 with max_retries = 3 gave the body.
C7_Witness ==
    /\ call = "_get" /\ max_retries = 3
    /\ outcomes = <<Response(503), Response(503), Response(200)>>
    /\ getResult.ret = "body"

\* C8: in _get a status that is neither 200 nor retriable ends the fetch at
\* once with None: it is the last attempt, and no sleep follows it.
C8_TerminalStatusEndsFetch ==
    pc \in GetPcs =>
        \A j \in 1..Len(outcomes) :
            TerminalFailure(outcomes[j]) =>
                /\ j = Len(outcomes)
                /\ getResult.ret = "None"
                /\ Len(sleeps) = j - 1

\* C8 witness: 503 then 404 with max_retries = 3.
C8_Witness ==
    /\ call = "_get" /\ max_retries = 3
    /\ outcomes = <<Response(503), Response(404)>>
    /\ getResult.ret = "None"

\* C9: in _get a sleep happens only before a next attempt: the sleep after the
\* retriable failure of attempt k < max_retries lasts base_delay * k * 1.6, and
\* after a failure at attempt max_retries _get returns without sleeping.
C9_SleepOnlyBeforeNextAttempt ==
    pc \in GetPcs =>
        \A k \in 1..Len(sleeps) :
            /\ k <= Len(outcomes) /\ RetriableFailure(outcomes[k])
            /\ sleeps[k] = delay * k * 16
            /\ k < max_retries

\* C10: _get never raises: it ends with a body or with None, and with None
\* once the retries are used up.
C10_NeverRaises ==
    pc \in GetPcs =>
        /\ getResult.ret \in {"pending", "body", "None"}
        /\ Len(outcomes) = max_retries => getResult.ret \in {"body", "None"}
        /\ (Len(outcomes) = max_retries /\ outcomes[max_retries] # Response(200))
               => getResult.ret = "None"

\* C10 witness: three transport exceptions with max_retries = 3 ended in None.
C10_Witness ==
    /\ call = "_get" /\ max_retries = 3
    /\ outcomes = <<Exception, Exception, Exception>>
    /\ getResult.ret = "None"

(***************************************************************************)
(* The MEDLINE text handed to _parse_medline_format, read as the format     *)
(* defines it: record blocks separated by blank lines                       *)
(***************************************************************************)
ParseReturned == call = "_parse_medline_format" /\ pc = "returned"

InputLines == SplitLines(args.medline_text)

IsBlank(line) == \A i \in 1..Len(line) : line[i] \in Whitespace

IsContinuation(line) ==
    ~IsBlank(line) /\ Len(line) >= 6 /\ \A i \in 1..6 : line[i] = " "

\* a line that carries a field value of the record
IsFieldLine(line) ==
    \E key \in {KeyPMID, KeyTI, KeyAB, KeyAU, KeyTA, KeyDP} : StartsWith(line, key)

\* the value of a field line, trimmed
ValueOf(line) == Strip(DropFirst(line, 6))

\* the maximal runs of non-blank lines, in order
RECURSIVE Blocks(_)
Blocks(lines) ==
    IF lines = <<>> THEN <<>>
    ELSE IF IsBlank(Head(lines)) THEN Blocks(Tail(lines))
    ELSE LET n == CHOOSE k \in 1..Len(lines) :
                      /\ \A i \in 1..k : ~IsBlank(lines[i])
                      /\ (k = Len(lines) \/ IsBlank(lines[k + 1]))
         IN  <<SubSeq(lines, 1, n)>> \o Blocks(DropFirst(lines, n))

InputBlocks == Blocks(InputLines)

\* every block of the input carries at least one field value
EveryBlockHasField ==
    \A k \in 1..Len(InputBlocks) :
        \E i \in 1..Len(InputBlocks[k]) : IsFieldLine(InputBlocks[k][i])

EndsWithBlankLine == InputLines # <<>> /\ IsBlank(InputLines[Len(InputLines)])

LinesWith(block, key) == {i \in 1..Len(block) : StartsWith(block[i], key)}

\* number of continuation lines directly after line i of the block
RECURSIVE ContinuationsAfter(_, _)
ContinuationsAfter(block, i) ==
    IF i + 1 > Len(block) \/ ~IsContinuation(block[i + 1]) THEN 0
    ELSE 1 + ContinuationsAfter(block, i + 1)

\* the value of the block's only `key` line and the text of the continuation
\* lines directly after it, joined by single spaces
FieldText(block, key) ==
    LET t == CHOOSE i \in LinesWith(block, key) : TRUE
        m == ContinuationsAfter(block, t)
    IN  Join(<<" ">>, <<ValueOf(block[t])>> \o [i \in 1..m |-> Strip(block[t + i])])

\* C11: for an input whose record blocks are each closed by a blank line (the
\* text ends with a blank line), the parser returns exactly one record per
\* block, and none in addition at the end of the input.
C11_OneRecordPerBlock ==
    (ParseReturned /\ InputBlocks # <<>> /\ EveryBlockHasField /\ EndsWithBlankLine)
        => Len(ret) = Len(InputBlocks)

\* C12: the title (abstract) of the record of a block with one TI (AB) line is
\* the trimmed value of that line and the trimmed text of the continuation
\* lines directly after it, in order, joined by exactly one space.
C12_ContinuationsJoined ==
    (ParseReturned /\ EveryBlockHasField)
        => \A k \in 1..Len(InputBlocks) :
              /\ k <= Len(ret)
              /\ Cardinality(LinesWith(InputBlocks[k], KeyTI)) = 1
                    => ret[k].title = FieldText(InputBlocks[k], KeyTI)
              /\ Cardinality(LinesWith(InputBlocks[k], KeyAB)) = 1
                    => ret[k].abstract = FieldText(InputBlocks[k], KeyAB)

\* C12 witness: the block PMID, TI "A", continuation "B", AB "C", closed by a
\* blank line, gave a first record with title "A B" and abstract "C".
C12_Witness ==
    /\ ParseReturned
    /\ InputLines = <<LinePMID, LineTI, LineCont, LineAB, LineBlank>>
    /\ ret[1].title = <<"A", " ", "B">>
    /\ ret[1].abstract = <<"C">>

\* C13: the record of a block that has a PMID line keeps the value of that
\* line as its pmid, and the record of every block without one gets the
\* numeric id of the detail-page link.
C13_LinkIdOnlyWithoutPmidLine ==
    (ParseReturned /\ EveryBlockHasField)
        => \A k \in 1..Len(InputBlocks) :
              LET block == InputBlocks[k]
                  pmids == LinesWith(block, KeyPMID)
                  last  == CHOOSE i \in pmids : \A j \in pmids : j <= i
              IN  /\ k <= Len(ret)
                  /\ ret[k].pmid = IF pmids # {} THEN ValueOf(block[last])
                                   ELSE StripChar(args.href, "/")

\* C14: search_papers issues no search query with start_index above five times
\* the target count, whether the batches before it yielded records or none.
C14_NoQueryBeyondLimit ==
    (call = "search_papers" /\ pc = "A_query") => start_index <= 5 * max_results

\* C15: get_trending_papers fetches the listing pages 1, 2, 3, ... in this
\* order, each once and at most 20 of them; when the links of a page yielded
\* no valid record the page counter still advances and the next page is
\* fetched (unless the ceiling is reached); a page without links ends the
\* pagination.
C15_ListingPagination ==
    [][call = "get_trending_papers" =>
        /\ Len(listing_fetches') <= 20
        /\ \A i \in 1..Len(listing_fetches') : listing_fetches'[i] = i
        /\ (pc = "detail_get" /\ pc' # "detail_get" /\ valid_papers_in_page' = 0)
              => /\ page' = page + 1
                 /\ page' <= 20 => (pc' = "listing_get"
                                     /\ listing_fetches' = Append(listing_fetches, page'))
        /\ (pc = "listing_get" /\ getResult.ret = "body"
                /\ ExtractHrefsFromPage(getResult.body) = <<>>)
              => (pc' = "returned" /\ listing_fetches' = listing_fetches)
      ]_vars

\* C15 witness: twenty listing pages were fetched, the links of each yielded
\* no valid record, the listing has a further page with links, and the harvest
\* has returned short of its target.
C15_Witness ==
    /\ call = "get_trending_papers" /\ pc = "returned"
    /\ Len(listing_fetches) = 20
    /\ collected_papers = <<>> /\ max_results > 0
    /\ ExtractHrefsFromPage(ListingPage(listing, 21)) # <<>>

\* C16: a search query of search_papers that fails (timeout, connection error,
\* error status) does not end the category: the harvest stays in its query
\* loop, to retry the query or to go on with the next one.
C16_QueryFailureDoesNotEndCategory ==
    [][(call = "search_papers" /\ Len(queries') > Len(queries)
            /\ queries'[Len(queries')] = "error")
          => pc' = "A_query"
      ]_vars

\* C17: when a detail-page fetch of get_trending_papers ends in absence, the
\* collected list is left as it was and the harvest goes on: with the next
\* link of the page if there is one, else with the next listing page (unless
\* the page ceiling is reached).
C17_AbsentDetailDropsOneLink ==
    [][(call = "get_trending_papers" /\ pc = "detail_get" /\ getResult.ret = "None")
          => /\ collected_papers' = collected_papers
             /\ IF href_i < Len(hrefs)
                THEN pc' = "detail_get" /\ href_i' = href_i + 1
                     /\ page' = page /\ hrefs' = hrefs
                ELSE page' = page + 1 /\ (page' <= 20 => pc' = "listing_get")
      ]_vars

\* C17 witness: the first page links /1/ then /2/; the fetch of /1/ ended in
\* absence, the record of /2/ was collected, and a second listing page was
\* fetched before the harvest returned.
C17_Witness ==
    /\ call = "get_trending_papers" /\ pc = "returned"
    /\ max_results = 2
    /\ ListingPage(listing, 1) = <<Anchor1, Anchor2>>
    /\ ~faithful
    /\ Len(collected_papers) = 1
    /\ collected_papers[1].title = <<"D">>
    /\ Len(listing_fetches) >= 2

\* C18: when a listing-page fetch of get_trending_papers ends in absence, the
\* page counts as one without content and the harvest goes on with the next
\* listing page (unless the page ceiling is reached).
C18_AbsentListingSkipsPage ==
    [][(call = "get_trending_papers" /\ pc = "listing_get" /\ getResult.ret = "None")
          => (page' = page + 1 /\ (page' <= 20 => pc' = "listing_get"))
      ]_vars

\* C19: search_papers raises only for a category that is not configured, and
\* then before any search query is issued; for a configured category no
\* failed request, unparseable feed or bad entry makes it raise.
C19_RaisesOnlyForUnknownCategory ==
    call = "search_papers" =>
        /\ pc = "raised" => category \notin Categories
        /\ category \notin Categories => (pc \in {"call", "raised"} /\ queries = <<>>)

\* C19 witness: for a configured category, a query failed after a record had
\* been collected, and search_papers returned that record.
C19_Witness ==
    /\ call = "search_papers" /\ pc = "returned"
    /\ category \in Categories
    /\ queries # <<>> /\ queries[Len(queries)] = "error"
    /\ collected_papers # <<>>

\* "/<id>/" with <id> one path segment of digits only
IsCanonicalLink(h) ==
    /\ Len(h) >= 3
    /\ h[1] = "/" /\ h[Len(h)] = "/"
    /\ \A k \in 2..(Len(h) - 1) : h[k] \in Digits

\* C20: every link _extract_hrefs_from_page returns has the form "/<id>/",
\* <id> being a single path segment made of digits only.
C20_CanonicalLinksOnly ==
    (call = "_extract_hrefs_from_page" /\ pc = "returned")
        => \A i \in 1..Len(ret) : IsCanonicalLink(ret[i])

(***************************************************************************)
(* The date text handed to _format_pubmed_date, read as the format defines  *)
(* it: year, month abbreviation and day, separated by whitespace            *)
(***************************************************************************)
DateReturned == call = "_format_pubmed_date" /\ pc = "returned"

\* the whitespace-separated tokens of the input
TokensOf(text) == SplitWs(text)

\* the twelve abbreviations and their numbers; any other token counts as 01
MonthNumber(abbrev) ==
    CASE abbrev = <<"J","a","n">> -> <<"0","1">>
      [] abbrev = <<"F","e","b">> -> <<"0","2">>
      [] abbrev = <<"M","a","r">> -> <<"0","3">>
      [] abbrev = <<"A","p","r">> -> <<"0","4">>
      [] abbrev = <<"M","a","y">> -> <<"0","5">>
      [] abbrev = <<"J","u","n">> -> <<"0","6">>
      [] abbrev = <<"J","u","l">> -> <<"0","7">>
      [] abbrev = <<"A","u","g">> -> <<"0","8">>
      [] abbrev = <<"S","e","p">> -> <<"0","9">>
      [] abbrev = <<"O","c","t">> -> <<"1","0">>
      [] abbrev = <<"N","o","v">> -> <<"1","1">>
      [] abbrev = <<"D","e","c">> -> <<"1","2">>
      [] OTHER -> <<"0","1">>

TwoDigits(day) == IF Len(day) = 1 THEN <<"0">> \o day ELSE day

IsYear(token) == Len(token) = 4 /\ \A i \in 1..4 : token[i] \in Digits

\* C21: three tokens year, month, day give DD/MM/YYYY with the day padded to
\* two digits and the month number of the abbreviation (01 when unknown); two
\* tokens year, month give 01/MM/YYYY; one token of four digits gives
\* 01/01/YYYY.
C21_AcceptedShapes ==
    DateReturned =>
        LET t == TokensOf(args.date_str)
        IN  /\ Len(t) = 3 =>
                  ret = TwoDigits(t[3]) \o <<"/">> \o MonthNumber(t[2]) \o <<"/">> \o t[1]
            /\ Len(t) = 2 =>
                  ret = <<"0","1","/">> \o MonthNumber(t[2]) \o <<"/">> \o t[1]
            /\ (Len(t) = 1 /\ IsYear(t[1])) =>
                  ret = <<"0","1","/","0","1","/">> \o t[1]

\* C21 witness: "2024 Dec 5" gave "05/12/2024".
C21_Witness ==
    /\ DateReturned
    /\ args.date_str = <<"2","0","2","4"," ","D","e","c"," ","5">>
    /\ ret = <<"0","5","/","1","2","/","2","0","2","4">>

\* C22: an input that has none of the three accepted shapes (no token, four
\* tokens or more, a single token that is not four digits) gives the empty
\* string.
C22_OtherShapesGiveEmpty ==
    DateReturned =>
        LET t == TokensOf(args.date_str)
        IN  (Len(t) = 0 \/ Len(t) >= 4 \/ (Len(t) = 1 /\ ~IsYear(t[1]))) => ret = <<>>

\* a non-blank line that is neither a continuation nor one of the key lines
IsUnrecognized(line) ==
    /\ ~IsBlank(line) /\ ~IsContinuation(line)
    /\ \A key \in {KeyPMID, KeyTI, KeyAB, KeyAU, KeyTA, KeyDP, KeyAID} :
          ~StartsWith(line, key)

\* the continuation line i follows a TI or AB line, with nothing but
\* continuation lines in between
FollowsTitleOrAbstract(lines, i) ==
    \E j \in 1..(i - 1) :
        /\ StartsWith(lines[j], KeyTI) \/ StartsWith(lines[j], KeyAB)
        /\ \A k \in (j + 1)..(i - 1) : IsContinuation(lines[k])

\* the lines that are neither unrecognized nor continuation lines out of place
RECURSIVE Select(_, _)
Select(lines, keep) ==
    IF lines = <<>> THEN <<>>
    ELSE (IF Len(lines) \in keep THEN Select(SubSeq(lines, 1, Len(lines) - 1), keep)
                                      \o <<lines[Len(lines)]>>
          ELSE Select(SubSeq(lines, 1, Len(lines) - 1), keep))

WithoutInertLines(lines) ==
    Select(lines,
           {i \in 1..Len(lines) :
               /\ ~IsUnrecognized(lines[i])
               /\ IsContinuation(lines[i]) => FollowsTitleOrAbstract(lines, i)})

\* C26: continuation lines whose most recent non-continuation line is not a
\* TI or AB line of the same record, and unrecognized non-blank lines, change
\* no field of any record: the parser returns what it returns for the text
\* without these lines.
C26_InertLinesChangeNothing ==
    ParseReturned =>
        ret = ParseMedlineFormat(Terminated(WithoutInertLines(InputLines)), args.href)

\* C26 witness: in TI "A", AU "X", continuation "B" the continuation follows
\* the AU line; the record has title "A" and author "X".
C26_Witness ==
    /\ ParseReturned
    /\ InputLines = <<LineTI, LineAU, LineCont>>
    /\ Len(ret) = 1
    /\ ret[1].title = <<"A">>
    /\ ret[1].authors = <<"X">>

\* C27: at a blank line the record being accumulated is emitted and the
\* parser starts afresh: the records returned are those emitted up to the
\* blank line, one per block, followed by what the parser returns for the
\* text after the blank line alone.
C27_BlankLineEmitsAndResets ==
    ParseReturned =>
        \A i \in 1..Len(InputLines) :
            IsBlank(InputLines[i]) =>
                LET upTo    == SubSeq(InputLines, 1, i)
                    before  == ParseMedlineFormat(Terminated(upTo), args.href)
                    emitted == SubSeq(before, 1, Len(before) - 1)
                    after   == ParseMedlineFormat(
                                   Terminated(SubSeq(InputLines, i + 1, Len(InputLines))),
                                   args.href)
                IN  /\ ret = emitted \o after
                    /\ EveryBlockHasField => Len(emitted) = Len(Blocks(upTo))

\* C27 witness: TI "A", two blank lines, continuation "B", AB "C" gave two
\* records: title "A" alone, then abstract "C" with no title.
C27_Witness ==
    /\ ParseReturned
    /\ InputLines = <<LineTI, LineBlank, LineBlank, LineCont, LineAB>>
    /\ Len(ret) = 2
    /\ ret[1].title = <<"A">> /\ ret[1].abstract = <<>>
    /\ ret[2].title = <<>> /\ ret[2].abstract = <<"C">>

\* C23: a query that was answered moves start_index forward by twice the
\* target count when the batch added no record to the collected list, and by
\* the number of records parsed from the response when it added some; either
\* way start_index grows.
C23_StartIndexAdvance ==
    [][(call = "search_papers" /\ queries' = Append(queries, "ok")) =>
          /\ start_index' - start_index =
                 (IF Len(collected_papers') = Len(collected_papers)
                  THEN 2 * max_results ELSE Len(batch_papers'))
          /\ start_index' > start_index]_vars

\* C23 witness: the first response parsed to two records of which one was
\* accepted; start_index is 2.
C23_Witness ==
    /\ call = "search_papers" /\ queries = <<"ok">>
    /\ Len(batch_papers) = 2 /\ Len(collected_papers) = 1
    /\ start_index = 2

\* C24: in search_papers, every query that is followed by another query has
\* a sleep right after it.
C24_SleepBetweenQueries ==
    call = "search_papers" =>
        \A i \in 1..(Len(events) - 1) :
            events[i] = "query" => events[i + 1] = "sleep"

\* C24 witness: a batch that yielded no record was followed by a sleep and
\* then by the next query.
C24_Witness ==
    /\ call = "search_papers" /\ collected_papers = <<>>
    /\ Len(events) >= 3
    /\ SubSeq(events, 1, 3) = <<"query", "sleep", "query">>

\* C25: in get_trending_papers, every fetch of a listing page or of a detail
\* page that is followed by another fetch has a sleep right after it.
C25_SleepBetweenFetches ==
    call = "get_trending_papers" =>
        \A i \in 1..(Len(events) - 1) :
            events[i] \in {"listing", "detail"} => events[i + 1] = "sleep"

\* C28: in a harvest, every record of the collected list stays where it is,
\* as it is, at every step.
C28_CollectedOnlyGrows ==
    [][Harvesting =>
          \A i \in 1..Len(collected_papers) :
              /\ i <= Len(collected_papers')
              /\ collected_papers'[i] = collected_papers[i]]_vars

\* C28 witness: search_papers collected one record from its first batch and
\* a second one from its second batch.
C28_Witness ==
    /\ call = "search_papers" /\ queries = <<"ok", "ok">>
    /\ Len(collected_papers) = 2
    /\ start_index > Len(batch_papers)
    /\ collected_papers[2] = batch_papers[1]

\* C30: search_papers comes to an end whatever the target count and the
\* responses; with a target count N >= 1 it issues at most N + 2 queries,
\* with N <= 0 it issues none and returns the empty list.
C30_SearchTerminates ==
    /\ <>(call = "search_papers" /\ pc \in {"returned", "raised"})
    /\ [](Len(queries) <= IF max_results >= 1 THEN max_results + 2 ELSE 0)
    /\ []((pc = "returned" /\ max_results <= 0) => collected_papers = <<>>)

\* C30 witness: a call with target count N >= 1 returned after N + 2 queries.
C30_Witness ==
    /\ call = "search_papers" /\ pc = "returned"
    /\ max_results >= 1
    /\ Len(queries) = max_results + 2

\* the calls main is expected to make, in order, with the returns of the two
\* harvesters
ExpectedTrace ==
    << [op |-> "call",   fn |-> "search_papers",       category |-> "computation_language"],
       [op |-> "return", fn |-> "search_papers",       category |-> "computation_language"],
       [op |-> "call",   fn |-> "search_papers",       category |-> "computer_vision"],
       [op |-> "return", fn |-> "search_papers",       category |-> "computer_vision"],
       [op |-> "call",   fn |-> "search_papers",       category |-> "cryptography_security"],
       [op |-> "return", fn |-> "search_papers",       category |-> "cryptography_security"],
       [op |-> "call",   fn |-> "save_arxiv_data",     category |-> ""],
       [op |-> "call",   fn |-> "get_trending_papers", category |-> ""],
       [op |-> "return", fn |-> "get_trending_papers", category |-> ""],
       [op |-> "call",   fn |-> "save_pubmed_data",    category |-> ""] >>

\* C29: main calls search_papers once for each configured category, in
\* order, then get_trending_papers once, each call returning before the next
\* is made; a search query is only out during a search_papers call, a fetch
\* only during the get_trending_papers call, which starts after the last
\* search_papers call returned; save_arxiv_data gets the lists the three
\* search_papers calls returned, concatenated, and save_pubmed_data the list
\* get_trending_papers returned.
C29_MainSequential ==
    main_pc # "none" =>
        /\ Len(trace) <= Len(ExpectedTrace)
        /\ main_pc = "done" => Len(trace) = Len(ExpectedTrace)
        /\ \A i \in 1..Len(trace) :
               [op |-> trace[i].op, fn |-> trace[i].fn, category |-> trace[i].category]
                   = ExpectedTrace[i]
        /\ (call = "search_papers" \/ queries # <<>>) =>
               /\ Len(trace) \in {1, 3, 5}
               /\ category = trace[Len(trace)].category
               /\ listing_fetches = <<>>
        /\ (call = "get_trending_papers" \/ pc \in GetPcs \/ listing_fetches # <<>>) =>
               /\ Len(trace) >= 8
               /\ queries = <<>>
        /\ Len(trace) >= 7 =>
               trace[7].papers = trace[2].papers \o trace[4].papers \o trace[6].papers
        /\ Len(trace) >= 10 => trace[10].papers = trace[9].papers

\* C29 witness: main is through; both sinks were handed records.
C29_Witness ==
    /\ main_pc = "done" /\ Len(trace) = 10
    /\ Len(trace[7].papers) >= 2
    /\ trace[2].papers # <<>> /\ trace[6].papers # <<>>
    /\ trace[10].papers # <<>>

\* the DOIs of a list of records
DoisOf(papers) == {papers[i].doi : i \in 1..Len(papers)}

\* C31: every search_papers call main makes starts with an empty collected
\* list and an empty set of seen DOIs, whatever the earlier calls returned;
\* what a call has seen and collected comes from its own feed, within one
\* returned list no DOI repeats, and a call whose queries were all served
\* returns every valid DOI of its feed, also those an earlier call returned.
C31_DedupLocalToCall ==
    main_pc # "none" =>
        /\ (call = "search_papers" /\ pc = "call") =>
               (collected_papers = <<>> /\ seen_dois = {})
        /\ call = "search_papers" =>
               /\ seen_dois \subseteq DoisA(feed)
               /\ DoisOf(collected_papers) \subseteq seen_dois
               /\ (pc = "returned" /\ faithful) => DoisOf(collected_papers) = DoisA(feed)
        /\ \A k \in {2, 4, 6} :
               k <= Len(trace) => NoDuplicateKeys(trace[k].papers)

\* C31 witness: the list handed to save_arxiv_data holds one DOI twice, from
\* two categories.
C31_Witness ==
    /\ main_pc \in {"pubmed", "get_trending_papers", "save", "done"}
    /\ Len(trace) >= 7
    /\ trace[7].fn = "save_arxiv_data"
    /\ \E i, j \in 1..Len(trace[7].papers) :
           /\ i < j
           /\ trace[7].papers[i].doi = trace[7].papers[j].doi
           /\ trace[7].papers[i].section # trace[7].papers[j].section

============================================================================
